---- MODULE Spec2Model ----
(***************************************************************************)
(* Model of recur_scan/features.py: the feature functions computed for a   *)
(* transaction and a transaction history.  Every function of the module is *)
(* pure, so the state is the pair of inputs (transaction, all_transactions)*)
(* together with the call that was made on them and what it returned or    *)
(* raised.                                                                 *)
(*                                                                         *)
(* Representation of the Python values:                                    *)
(*  - a date string is the record of its three "-"-separated fields        *)
(*    [wf, y, m, d]; wf = FALSE stands for the string "not-a-date", whose   *)
(*    third field is not a number;                                         *)
(*  - a float is an exact rational [num, den] in lowest terms (binary      *)
(*    rounding of the float type is not modelled);                         *)
(*  - a name is the sequence of its characters;                            *)
(*  - a call result is [raised, value]: value is the returned value, or    *)
(*    the name of the exception when raised.                               *)
(***************************************************************************)
EXTENDS Integers, Sequences, FiniteSets, TLC

VARIABLES transaction, all_transactions, call, result

vars == <<transaction, all_transactions, call, result>>

\* Longest history drawn as input.
MaxHist == 3

-----------------------------------------------------------------------------
(* Call results *)

Ret(v) == [raised |-> FALSE, value |-> v]

ValueError == [raised |-> TRUE, value |-> "ValueError"]

-----------------------------------------------------------------------------
(* Exact rationals standing for Python floats *)

Abs(x) == IF x < 0 THEN -x ELSE x

RECURSIVE Gcd(_, _)
Gcd(a, b) == IF b = 0 THEN a ELSE Gcd(b, a % b)

\* n / d for d # 0, in lowest terms with a positive denominator
Rat(n, d) ==
    LET g == Gcd(Abs(n), Abs(d))
        s == IF d < 0 THEN -1 ELSE 1
    IN  [num |-> (s * n) \div g, den |-> (s * d) \div g]

RatInt(n) == [num |-> n, den |-> 1]

RatSub(a, b) == Rat(a.num * b.den - b.num * a.den, a.den * b.den)

RatMul(a, b) == Rat(a.num * b.num, a.den * b.den)

\* a / b for b # 0
RatDiv(a, b) == Rat(a.num * b.den, a.den * b.num)

RatAbs(a) == [num |-> Abs(a.num), den |-> a.den]

RatLeq(a, b) == a.num * b.den <= b.num * a.den

\* Python's x % m for a positive integer m: x - m * floor(x / m)
RatMod(a, m) == Rat(a.num - m * a.den * (a.num \div (m * a.den)), a.den)

-----------------------------------------------------------------------------
(* datetime.strptime(date, "%Y-%m-%d") and the calendar of datetime *)

Date(y, m, d) == [wf |-> TRUE, y |-> y, m |-> m, d |-> d]

\* the string "not-a-date"
NotADate == [wf |-> FALSE, y |-> 0, m |-> 0, d |-> 0]

IsLeap(y) == y % 4 = 0 /\ (y % 100 # 0 \/ y % 400 = 0)

DaysInMonth(y, m) ==
    IF m = 2 THEN (IF IsLeap(y) THEN 29 ELSE 28)
    ELSE IF m \in {4, 6, 9, 11} THEN 30 ELSE 31

\* strptime raises ValueError unless this holds
strptime_ok(date) ==
    /\ date.wf
    /\ date.y \in 1..9999
    /\ date.m \in 1..12
    /\ date.d \in 1..DaysInMonth(date.y, date.m)

RECURSIVE DaysBeforeMonth(_, _)
DaysBeforeMonth(y, m) ==
    IF m <= 1 THEN 0 ELSE DaysBeforeMonth(y, m - 1) + DaysInMonth(y, m - 1)

DaysBeforeYear(y) ==
    LET p == y - 1 IN p * 365 + (p \div 4) - (p \div 100) + (p \div 400)

\* datetime.toordinal(): 0001-01-01 is day 1
toordinal(date) == DaysBeforeYear(date.y) + DaysBeforeMonth(date.y, date.m) + date.d

\* datetime.weekday(): Monday = 0
weekday(date) == (toordinal(date) + 6) % 7

\* _get_days, for a date strptime accepts
_get_days(date) == toordinal(date) - toordinal(Date(1970, 1, 1))

\* _get_day: int(date.split("-")[2]), ValueError when the field is no number
_get_day_ok(date) == date.wf

_get_day(date) == date.d

-----------------------------------------------------------------------------
(* re.search(r"\b(t1|t2|...)\b", name, re.IGNORECASE) *)

UpperCase == <<"A", "B", "C", "D", "E", "F", "G", "H", "I", "J", "K", "L", "M",
               "N", "O", "P", "Q", "R", "S", "T", "U", "V", "W", "X", "Y", "Z">>

LowerCase == <<"a", "b", "c", "d", "e", "f", "g", "h", "i", "j", "k", "l", "m",
               "n", "o", "p", "q", "r", "s", "t", "u", "v", "w", "x", "y", "z">>

Digits == {"0", "1", "2", "3", "4", "5", "6", "7", "8", "9"}

Range(s) == {s[i] : i \in DOMAIN s}

\* re.IGNORECASE: characters compare by their lower-case form
Lower(c) ==
    IF c \in Range(UpperCase)
    THEN LowerCase[CHOOSE i \in DOMAIN UpperCase : UpperCase[i] = c]
    ELSE c

\* \w
IsWordChar(c) == c \in Range(UpperCase) \cup Range(LowerCase) \cup Digits \cup {"_"}

\* whether position p of name (1..Len(name)) holds a word character
WordAt(name, p) == p \in DOMAIN name /\ IsWordChar(name[p])

\* \b between positions p and p + 1
Boundary(name, p) == WordAt(name, p) # WordAt(name, p + 1)

\* term matches name at positions i .. i + Len(term) - 1, ignoring case
MatchesAt(name, i, term) ==
    /\ i + Len(term) - 1 <= Len(name)
    /\ \A k \in DOMAIN term : Lower(name[i + k - 1]) = Lower(term[k])

\* re.search(r"\b(" + "|".join(terms) + r")\b", name, re.IGNORECASE) is not None
re_search(terms, name) ==
    \E i \in DOMAIN name : \E t \in DOMAIN terms :
        /\ Boundary(name, i - 1)
        /\ MatchesAt(name, i, terms[t])
        /\ Boundary(name, i + Len(terms[t]) - 1)

AlwaysRecurringTerms ==
    << <<"n", "e", "t", "f", "l", "i", "x">>,
       <<"s", "p", "o", "t", "i", "f", "y">>,
       <<"g", "o", "o", "g", "l", "e", " ", "s", "t", "o", "r", "a", "g", "e">>,
       <<"h", "u", "l", "u">> >>

InsuranceTerms ==
    << <<"i", "n", "s", "u", "r">>,
       <<"g", "e", "i", "c", "o">>,
       <<"a", "l", "l", "s", "t", "a", "t", "e">>,
       <<"s", "t", "a", "t", "e", " ", "f", "a", "r", "m">>,
       <<"p", "r", "o", "g", "r", "e", "s", "s", "i", "v", "e">>,
       <<"i", "n", "s", "u", "r">>,
       <<"i", "n", "s", "u", "r", "a", "n", "c">> >>

UtilityTerms ==
    << <<"w", "a", "t", "e", "r">>,
       <<"e", "l", "e", "c", "t", "r", "i", "c", "i", "t", "y">>,
       <<"g", "a", "s">>,
       <<"i", "n", "t", "e", "r", "n", "e", "t">>,
       <<"c", "a", "b", "l", "e">>,
       <<"e", "n", "e", "r", "g", "y">>,
       <<"u", "t", "i", "l", "i", "t">>,
       <<"u", "t", "i", "l", "i", "t", "y">> >>

MobileTerms ==
    << <<"t", "-", "m", "o", "b", "i", "l", "e">>,
       <<"a", "t", "&", "t">>,
       <<"v", "e", "r", "i", "z", "o", "n">>,
       <<"b", "o", "o", "s", "t", " ", "m", "o", "b", "i", "l", "e">>,
       <<"t", "e", "l", "l", "o", " ", "m", "o", "b", "i", "l", "e">> >>

get_is_always_recurring(t) == re_search(AlwaysRecurringTerms, t.name)

get_is_insurance(t) == re_search(InsuranceTerms, t.name)

get_is_utility(t) == re_search(UtilityTerms, t.name)

is_recurring_mobile_transaction(t) == re_search(MobileTerms, t.name)

-----------------------------------------------------------------------------
(* Periodicity detectors *)

\* mutant: the "too close" skip is left out
days_apart_counts_no_skip(t_days, transaction_days, n_days_apart, n_days_off) ==
    LET days_diff == Abs(t_days - transaction_days)
        remainder == days_diff % n_days_apart
    IN  IF remainder <= n_days_off \/ (n_days_apart - remainder) <= n_days_off
        THEN 1
        ELSE 0

\* mutant: the skip adds the tolerance instead of subtracting it
days_apart_counts_wrong_sign(t_days, transaction_days, n_days_apart, n_days_off) ==
    LET days_diff == Abs(t_days - transaction_days)
        remainder == days_diff % n_days_apart
    IN  IF days_diff < n_days_apart + n_days_off THEN 0
        ELSE IF remainder <= n_days_off \/ (n_days_apart - remainder) <= n_days_off
             THEN 1
             ELSE 0

\* the loop body of get_n_transactions_days_apart for one entry: 1 when counted
days_apart_counts(t_days, transaction_days, n_days_apart, n_days_off) ==
    LET days_diff == Abs(t_days - transaction_days)
        remainder == days_diff % n_days_apart
    IN  IF days_diff < n_days_apart - n_days_off THEN 0
        ELSE IF remainder <= n_days_off \/ (n_days_apart - remainder) <= n_days_off
             THEN 1
             ELSE 0

\* n_txs after the loop has run over entries i .. Len(txs), all with valid dates
RECURSIVE days_apart_loop(_, _, _, _, _)
days_apart_loop(txs, i, transaction_days, n_days_apart, n_days_off) ==
    IF i > Len(txs) THEN 0
    ELSE days_apart_counts(_get_days(txs[i].date), transaction_days,
                           n_days_apart, n_days_off)
         + days_apart_loop(txs, i + 1, transaction_days, n_days_apart, n_days_off)

get_n_transactions_days_apart(t, txs, n_days_apart, n_days_off) ==
    IF ~strptime_ok(t.date) THEN ValueError
    ELSE IF \E i \in DOMAIN txs : ~strptime_ok(txs[i].date) THEN ValueError
    ELSE Ret(days_apart_loop(txs, 1, _get_days(t.date), n_days_apart, n_days_off))

get_n_transactions_same_day(t, txs, n_days_off) ==
    IF txs # <<>> /\ (~_get_day_ok(t.date) \/ \E i \in DOMAIN txs : ~_get_day_ok(txs[i].date))
    THEN ValueError
    ELSE Ret(Cardinality({i \in DOMAIN txs :
                 Abs(_get_day(txs[i].date) - _get_day(t.date)) <= n_days_off}))

-----------------------------------------------------------------------------
(* Amount and calendar features of one transaction *)

get_ends_in_99(t) == RatMod(RatMul(t.amount, RatInt(100)), 100) = RatInt(99)

get_year(t) == IF strptime_ok(t.date) THEN t.date.y ELSE -1

get_month(t) == IF strptime_ok(t.date) THEN t.date.m ELSE -1

get_day(t) == IF strptime_ok(t.date) THEN t.date.d ELSE -1

\* mutant: isoweekday(), Monday = 1
get_day_of_week_iso(t) == IF strptime_ok(t.date) THEN weekday(t.date) + 1 ELSE -1

get_day_of_week(t) == IF strptime_ok(t.date) THEN weekday(t.date) ELSE -1

-----------------------------------------------------------------------------
(* Aggregate statistics *)

\* min(...) and max(...) over the amounts of a non-empty list
RECURSIVE MinFrom(_, _)
MinFrom(txs, i) ==
    IF i = Len(txs) THEN txs[i].amount
    ELSE LET rest == MinFrom(txs, i + 1)
         IN  IF RatLeq(txs[i].amount, rest) THEN txs[i].amount ELSE rest

RECURSIVE MaxFrom(_, _)
MaxFrom(txs, i) ==
    IF i = Len(txs) THEN txs[i].amount
    ELSE LET rest == MaxFrom(txs, i + 1)
         IN  IF RatLeq(rest, txs[i].amount) THEN txs[i].amount ELSE rest

get_min_transaction_amount(txs) == IF txs = <<>> THEN RatInt(0) ELSE MinFrom(txs, 1)

\* mutant: the maximum is computed with min
get_max_transaction_amount_as_min(txs) == get_min_transaction_amount(txs)

get_max_transaction_amount(txs) == IF txs = <<>> THEN RatInt(0) ELSE MaxFrom(txs, 1)

get_n_transactions_same_vendor(t, txs) ==
    Cardinality({i \in DOMAIN txs : txs[i].name = t.name})

get_n_transactions_same_amount(t, txs) ==
    Cardinality({i \in DOMAIN txs : txs[i].amount = t.amount})

get_percent_transactions_same_amount(t, txs) ==
    IF txs = <<>> THEN RatInt(0)
    ELSE Rat(get_n_transactions_same_amount(t, txs), Len(txs))

-----------------------------------------------------------------------------
(* Interval statistics *)

\* sorted(): insertion of one date into an ascending list
RECURSIVE Insert(_, _)
Insert(d, sorted) ==
    IF sorted = <<>> THEN <<d>>
    ELSE IF toordinal(d) < toordinal(Head(sorted)) THEN <<d>> \o sorted
    ELSE <<Head(sorted)>> \o Insert(d, Tail(sorted))

\* mutant: the dates are left in the order given
SortDates_unsorted(dates) == dates

\* sorted(dates), stable
RECURSIVE SortDates(_)
SortDates(dates) ==
    IF dates = <<>> THEN <<>>
    ELSE Insert(dates[Len(dates)], SortDates(SubSeq(dates, 1, Len(dates) - 1)))

\* [(dates[i] - dates[i - 1]).days for i in range(1, len(dates))]
Intervals(dates) ==
    [i \in 1..(Len(dates) - 1) |-> toordinal(dates[i + 1]) - toordinal(dates[i])]

RECURSIVE Sum(_)
Sum(xs) == IF xs = <<>> THEN 0 ELSE Head(xs) + Sum(Tail(xs))

\* statistics.mean of a non-empty list of integers
mean(xs) == Rat(Sum(xs), Len(xs))

\* statistics.stdev of at least two integers, given by its square (the sample
\* variance): sum((x - mean)^2) / (n - 1)
stdev(xs) ==
    LET n == Len(xs)
        sq == [i \in DOMAIN xs |-> xs[i] * xs[i]]
    IN  [sqrt_of |-> Rat(n * Sum(sq) - Sum(xs) * Sum(xs), n * (n - 1))]

\* the float 0.0 as a standard deviation
ZeroStdev == [sqrt_of |-> RatInt(0)]

\* abs(amt - base_amount) / base_amount <= 0.05, for base_amount # 0
WithinFivePercent(amt, base_amount) ==
    RatLeq(RatDiv(RatAbs(RatSub(amt, base_amount)), base_amount), Rat(5, 100))

consistent_amount(txs) ==
    LET base_amount == txs[1].amount
    IN  IF base_amount = RatInt(0) THEN RatInt(0)
        ELSE Rat(Cardinality({i \in DOMAIN txs :
                     WithinFivePercent(txs[i].amount, base_amount)}), Len(txs))

get_transaction_intervals(txs) ==
    IF Len(txs) < 2
    THEN Ret([avg_days_between_transactions |-> RatInt(0),
              std_dev_days_between_transactions |-> ZeroStdev,
              monthly_recurrence |-> RatInt(0),
              same_weekday |-> 0,
              same_amount |-> RatInt(0)])
    ELSE IF \E i \in DOMAIN txs : ~strptime_ok(txs[i].date) THEN ValueError
    ELSE LET dates == SortDates([i \in DOMAIN txs |-> txs[i].date])
             intervals == Intervals(dates)
             monthly_count == Cardinality({i \in DOMAIN intervals :
                                  23 <= intervals[i] /\ intervals[i] <= 38})
             weekdays == {weekday(dates[i]) : i \in DOMAIN dates}
         IN  Ret([avg_days_between_transactions |-> mean(intervals),
                  std_dev_days_between_transactions |->
                      IF Len(intervals) > 1 THEN stdev(intervals) ELSE ZeroStdev,
                  monthly_recurrence |-> Rat(monthly_count, Len(intervals)),
                  same_weekday |-> IF Cardinality(weekdays) = 1 THEN 1 ELSE 0,
                  same_amount |-> consistent_amount(txs)])

-----------------------------------------------------------------------------
(* Feature assembler *)

get_features(t, txs) ==
    LET same_day(off) == get_n_transactions_same_day(t, txs, off)
        apart(gap, off) == get_n_transactions_days_apart(t, txs, gap, off)
        intervals_features == get_transaction_intervals(txs)
    IN  IF same_day(0).raised \/ apart(14, 0).raised \/ intervals_features.raised
        THEN ValueError
        ELSE Ret([n_transactions_same_amount |-> get_n_transactions_same_amount(t, txs),
                  percent_transactions_same_amount |->
                      get_percent_transactions_same_amount(t, txs),
                  n_transactions_same_vendor |-> get_n_transactions_same_vendor(t, txs),
                  max_transaction_amount |-> get_max_transaction_amount(txs),
                  min_transaction_amount |-> get_min_transaction_amount(txs),
                  is_recurring_mobile_transaction |-> is_recurring_mobile_transaction(t),
                  day_of_week |-> get_day_of_week(t),
                  month |-> get_month(t),
                  day |-> get_day(t),
                  year |-> get_year(t),
                  ends_in_99 |-> get_ends_in_99(t),
                  amount |-> t.amount,
                  same_day_exact |-> same_day(0).value,
                  same_day_off_1 |-> same_day(1).value,
                  same_day_off_2 |-> same_day(2).value,
                  d14_days_apart_exact |-> apart(14, 0).value,
                  d14_days_apart_off_by_1 |-> apart(14, 1).value,
                  d7_days_apart_exact |-> apart(7, 0).value,
                  d7_days_apart_off_by_1 |-> apart(7, 1).value,
                  is_insurance |-> get_is_insurance(t),
                  is_utility |-> get_is_utility(t),
                  is_always_recurring |-> get_is_always_recurring(t),
                  avg_days_between_transactions |->
                      intervals_features.value.avg_days_between_transactions,
                  std_dev_days_between_transactions |->
                      intervals_features.value.std_dev_days_between_transactions,
                  monthly_recurrence |-> intervals_features.value.monthly_recurrence,
                  same_weekday |-> intervals_features.value.same_weekday,
                  same_amount |-> intervals_features.value.same_amount])

-----------------------------------------------------------------------------
(* Inputs *)

Txn(name, amount, date) == [name |-> name, amount |-> amount, date |-> date]

\* every list of at most MaxHist entries drawn from S
Histories(S) == UNION {[1..n -> S] : n \in 0..MaxHist}

Netflix == <<"N", "e", "t", "f", "l", "i", "x">>

Names ==
    { <<"i", "n", "s", "u", "r">>,
      <<"I", "n", "s", "u", "r", "a", "n", "c", "e">>,
      <<"I", "N", "S", "U", "R", "E", "D">>,
      <<"G", "e", "i", "c", "o", " ", "A", "u", "t", "o">>,
      <<"S", "t", "a", "t", "e", " ", "F", "a", "r", "m">>,
      <<"N", "e", "t", "f", "l", "i", "x">>,
      <<"A", "T", "&", "T", " ", "W", "i", "r", "e", "l", "e", "s", "s">>,
      <<"A", "T", "T", " ", "S", "t", "o", "r", "e">>,
      <<"G", "a", "s", " ", "C", "o">>,
      <<"U", "t", "i", "l", "i", "t", "i", "e", "s">> }

\* 9.99
DefaultAmount == Rat(999, 100)

\* dates of history entries: valid ones 1, 13, 14, 15, 22, 23, 37, 38, 39 days
\* apart, and the string "2024-13-40"
HistDates ==
    { Date(2024, 1, 1), Date(2024, 1, 2), Date(2024, 1, 15), Date(2024, 1, 24),
      Date(2024, 2, 8), Date(2024, 2, 9), Date(2024, 13, 40) }

\* dates of the transaction under analysis in the periodicity runs
PeriodDates ==
    { Date(2024, 1, 1), Date(2024, 1, 8), Date(2024, 1, 16), Date(2024, 13, 40),
      NotADate }

\* dates of the transaction in the single-transaction runs
TxnDates ==
    { Date(2024, 1, 1), Date(2024, 1, 15), Date(2024, 2, 29), Date(2023, 12, 31),
      Date(2000, 2, 29), Date(1970, 1, 1), Date(1969, 7, 20),
      Date(2024, 13, 40), Date(2023, 2, 29), Date(1900, 2, 29), Date(2024, 4, 31),
      Date(2024, 0, 10), Date(2024, 6, 0), NotADate }

\* amounts of the transaction in the single-transaction runs:
\* 19.99, 20.00, 9.99, 19.994, 19.985, 19.995, 19.986, 0.99, -19.99, -0.01, 0
TxnAmounts ==
    { Rat(1999, 100), RatInt(20), Rat(999, 100), Rat(19994, 1000), Rat(19985, 1000),
      Rat(19995, 1000), Rat(19986, 1000), Rat(99, 100), Rat(-1999, 100), Rat(-1, 100), RatInt(0) }

\* amounts of history entries: 0, 100, 105, 106, -100
HistAmounts == { RatInt(0), RatInt(100), RatInt(105), RatInt(106), RatInt(-100) }

\* dates of history entries in the amount runs
AmountDates == { Date(2024, 1, 1), Date(2024, 1, 31) }

\* (n_days_apart, n_days_off) arguments
Gaps == {1, 2, 7, 14}

Tolerances == {0, 1, 2}

NoCall == [fn |-> "none", n_days_apart |-> 0, n_days_off |-> 0]

Call(fn) == [fn |-> fn, n_days_apart |-> 0, n_days_off |-> 0]

\* periodicity runs: dates vary
InitDates ==
    /\ transaction \in {Txn(Netflix, DefaultAmount, d) : d \in PeriodDates}
    /\ all_transactions \in Histories({Txn(Netflix, DefaultAmount, d) : d \in HistDates})
    /\ call = NoCall
    /\ result = Ret(0)

\* amount runs: amounts and the order of dates vary
InitAmounts ==
    /\ transaction \in {Txn(Netflix, a, Date(2024, 1, 1)) : a \in {RatInt(100), RatInt(0)}}
    /\ all_transactions \in
           Histories({Txn(Netflix, a, d) : a \in HistAmounts, d \in AmountDates})
    /\ call = NoCall
    /\ result = Ret(0)

\* ordering runs: non-negative amounts, dates on different weekdays, any order
InitOrder ==
    /\ transaction = Txn(Netflix, RatInt(100), Date(2024, 1, 1))
    /\ all_transactions \in
           Histories({Txn(Netflix, a, d) :
                         a \in {RatInt(0), RatInt(100), RatInt(105), RatInt(106)},
                         d \in {Date(2024, 1, 1), Date(2024, 1, 15), Date(2024, 1, 31)}})
    /\ call = NoCall
    /\ result = Ret(0)

\* single-transaction runs: name, amount and date of the transaction vary
InitTransaction ==
    /\ transaction \in {Txn(n, a, d) : n \in Names, a \in TxnAmounts, d \in TxnDates}
    /\ all_transactions = <<>>
    /\ call = NoCall
    /\ result = Ret(0)

-----------------------------------------------------------------------------
(* One action per function: the call made on the inputs and what it gave *)

GetFeatures ==
    /\ call = NoCall
    /\ call' = Call("get_features")
    /\ result' = get_features(transaction, all_transactions)
    /\ UNCHANGED <<transaction, all_transactions>>

GetNTransactionsDaysApart ==
    \E gap \in Gaps, off \in Tolerances :
        /\ call = NoCall
        /\ call' = [fn |-> "get_n_transactions_days_apart",
                    n_days_apart |-> gap, n_days_off |-> off]
        /\ result' = get_n_transactions_days_apart(transaction, all_transactions, gap, off)
        /\ UNCHANGED <<transaction, all_transactions>>

GetNTransactionsSameDay ==
    \E off \in Tolerances :
        /\ call = NoCall
        /\ call' = [fn |-> "get_n_transactions_same_day",
                    n_days_apart |-> 0, n_days_off |-> off]
        /\ result' = get_n_transactions_same_day(transaction, all_transactions, off)
        /\ UNCHANGED <<transaction, all_transactions>>

GetTransactionIntervals ==
    /\ call = NoCall
    /\ call' = Call("get_transaction_intervals")
    /\ result' = get_transaction_intervals(all_transactions)
    /\ UNCHANGED <<transaction, all_transactions>>

GetMinTransactionAmount ==
    /\ call = NoCall
    /\ call' = Call("get_min_transaction_amount")
    /\ result' = Ret(get_min_transaction_amount(all_transactions))
    /\ UNCHANGED <<transaction, all_transactions>>

GetMaxTransactionAmount ==
    /\ call = NoCall
    /\ call' = Call("get_max_transaction_amount")
    /\ result' = Ret(get_max_transaction_amount(all_transactions))
    /\ UNCHANGED <<transaction, all_transactions>>

GetNTransactionsSameAmount ==
    /\ call = NoCall
    /\ call' = Call("get_n_transactions_same_amount")
    /\ result' = Ret(get_n_transactions_same_amount(transaction, all_transactions))
    /\ UNCHANGED <<transaction, all_transactions>>

GetPercentTransactionsSameAmount ==
    /\ call = NoCall
    /\ call' = Call("get_percent_transactions_same_amount")
    /\ result' = Ret(get_percent_transactions_same_amount(transaction, all_transactions))
    /\ UNCHANGED <<transaction, all_transactions>>

GetIsAlwaysRecurring ==
    /\ call = NoCall
    /\ call' = Call("get_is_always_recurring")
    /\ result' = Ret(get_is_always_recurring(transaction))
    /\ UNCHANGED <<transaction, all_transactions>>

GetIsInsurance ==
    /\ call = NoCall
    /\ call' = Call("get_is_insurance")
    /\ result' = Ret(get_is_insurance(transaction))
    /\ UNCHANGED <<transaction, all_transactions>>

GetIsUtility ==
    /\ call = NoCall
    /\ call' = Call("get_is_utility")
    /\ result' = Ret(get_is_utility(transaction))
    /\ UNCHANGED <<transaction, all_transactions>>

IsRecurringMobileTransaction ==
    /\ call = NoCall
    /\ call' = Call("is_recurring_mobile_transaction")
    /\ result' = Ret(is_recurring_mobile_transaction(transaction))
    /\ UNCHANGED <<transaction, all_transactions>>

GetEndsIn99 ==
    /\ call = NoCall
    /\ call' = Call("get_ends_in_99")
    /\ result' = Ret(get_ends_in_99(transaction))
    /\ UNCHANGED <<transaction, all_transactions>>

\* get_year, get_month, get_day and get_day_of_week of the same transaction
GetCalendar ==
    /\ call = NoCall
    /\ call' = Call("calendar")
    /\ result' = Ret([year |-> get_year(transaction),
                       month |-> get_month(transaction),
                       day |-> get_day(transaction),
                       day_of_week |-> get_day_of_week(transaction)])
    /\ UNCHANGED <<transaction, all_transactions>>

NextDates ==
    \/ GetFeatures
    \/ GetNTransactionsDaysApart
    \/ GetNTransactionsSameDay
    \/ GetTransactionIntervals

NextAmounts ==
    \/ GetTransactionIntervals
    \/ GetMinTransactionAmount
    \/ GetMaxTransactionAmount
    \/ GetNTransactionsSameAmount
    \/ GetPercentTransactionsSameAmount

NextTransaction ==
    \/ GetIsAlwaysRecurring
    \/ GetIsInsurance
    \/ GetIsUtility
    \/ IsRecurringMobileTransaction
    \/ GetEndsIn99
    \/ GetCalendar

NextOrder == GetTransactionIntervals

SpecDates == InitDates /\ [][NextDates]_vars

SpecAmounts == InitAmounts /\ [][NextAmounts]_vars

SpecOrder == InitOrder /\ [][NextOrder]_vars

SpecTransaction == InitTransaction /\ [][NextTransaction]_vars

Init == InitDates \/ InitAmounts \/ InitOrder \/ InitTransaction

Next == NextDates \/ NextAmounts \/ NextOrder \/ NextTransaction

Spec == Init /\ [][Next]_vars
-----------------------------------------------------------------------------
(* Properties *)

AllDatesValid ==
    /\ strptime_ok(transaction.date)
    /\ \A i \in DOMAIN all_transactions : strptime_ok(all_transactions[i].date)

\* absolute day distance of history entry i from the transaction
Distance(i) == Abs(_get_days(all_transactions[i].date) - _get_days(transaction.date))

\* C1: whenever the transaction's date string is no valid YYYY-MM-DD calendar
\* date, get_features still returns a record, and the record carries -1 for
\* year, month, day and day_of_week.
C1_FeaturesSurviveBadDate ==
    (call.fn = "get_features" /\ ~strptime_ok(transaction.date)) =>
        /\ ~result.raised
        /\ result.value.year = -1
        /\ result.value.month = -1
        /\ result.value.day = -1
        /\ result.value.day_of_week = -1

\* C2: with all dates valid, get_n_transactions_days_apart returns exactly the
\* number of history entries whose distance diff from the transaction satisfies
\* |diff - k * n_days_apart| <= n_days_off for some integer k >= 1; hence an
\* entry at distance 0 is counted only when n_days_off >= n_days_apart.
C2_DaysApartCountsMultiples ==
    (call.fn = "get_n_transactions_days_apart" /\ AllDatesValid) =>
        LET gap == call.n_days_apart
            off == call.n_days_off
            near == {i \in DOMAIN all_transactions :
                        \E k \in 1..(Distance(i) + off + 1) :
                            Abs(Distance(i) - k * gap) <= off}
        IN  /\ ~result.raised
            /\ result.value = Cardinality(near)
            /\ off < gap =>
                   result.value <= Cardinality({i \in DOMAIN all_transactions :
                                                    Distance(i) # 0})

C2_Witness ==
    /\ call.fn = "get_n_transactions_days_apart"
    /\ call.n_days_apart = 14
    /\ call.n_days_off = 1
    /\ AllDatesValid
    /\ Len(all_transactions) = 3
    /\ \E i \in DOMAIN all_transactions : Distance(i) = 0
    /\ \E i \in DOMAIN all_transactions : Distance(i) = 1
    /\ \E i \in DOMAIN all_transactions : Distance(i) = 14
    /\ ~result.raised
    /\ result.value = 1

\* the distinct day numbers of the history
HistoryDays == {_get_days(all_transactions[i].date) : i \in DOMAIN all_transactions}

\* the day numbers followed, in ascending order of the distinct day numbers, by
\* a day number 23 to 38 days later
MonthlySteps ==
    {v \in HistoryDays :
        \E w \in HistoryDays :
            /\ w - v >= 23
            /\ w - v <= 38
            /\ ~\E u \in HistoryDays : v < u /\ u < w}

\* C9: for a history with valid dates, monthly_recurrence lies in [0, 1] and is
\* the number of gaps between consecutive date-sorted entries that fall in
\* [23, 38], divided by the number of gaps (n - 1); it is 0 for fewer than 2
\* entries.
C9_MonthlyRecurrenceRatio ==
    (/\ call.fn = "get_transaction_intervals"
     /\ \A i \in DOMAIN all_transactions : strptime_ok(all_transactions[i].date)) =>
        /\ ~result.raised
        /\ LET r == result.value.monthly_recurrence
               n == Len(all_transactions)
           IN  /\ 0 <= r.num /\ r.num <= r.den
               /\ n < 2 => r = RatInt(0)
               /\ n >= 2 => r = Rat(Cardinality(MonthlySteps), n - 1)

C9_Witness ==
    /\ call.fn = "get_transaction_intervals"
    /\ Len(all_transactions) = 3
    /\ all_transactions[1].date = Date(2024, 2, 9)
    /\ all_transactions[2].date = Date(2024, 1, 1)
    /\ all_transactions[3].date = Date(2024, 1, 24)
    /\ ~result.raised
    /\ result.value.monthly_recurrence = Rat(1, 2)

\* C10: in a record get_features returns for inputs with valid dates the
\* periodicity counts are nested: same_day_exact <= same_day_off_1 <=
\* same_day_off_2 <= history size, each 14-day and 7-day exact count is at most
\* its off-by-1 count, and each 14-day count is at most the 7-day count of the
\* same tolerance.
C10_PeriodicityCountsNested ==
    (call.fn = "get_features" /\ AllDatesValid) =>
        /\ ~result.raised
        /\ LET f == result.value
           IN  /\ f.same_day_exact <= f.same_day_off_1
               /\ f.same_day_off_1 <= f.same_day_off_2
               /\ f.same_day_off_2 <= Len(all_transactions)
               /\ f.d14_days_apart_exact <= f.d14_days_apart_off_by_1
               /\ f.d7_days_apart_exact <= f.d7_days_apart_off_by_1
               /\ f.d14_days_apart_exact <= f.d7_days_apart_exact
               /\ f.d14_days_apart_off_by_1 <= f.d7_days_apart_off_by_1

C10_Witness ==
    /\ call.fn = "get_features"
    /\ AllDatesValid
    /\ ~result.raised
    /\ result.value.same_day_exact < result.value.same_day_off_1
    /\ result.value.same_day_off_2 < Len(all_transactions)
    /\ result.value.d14_days_apart_exact = 1
    /\ result.value.d14_days_apart_off_by_1 = 2
    /\ result.value.d7_days_apart_exact = 1
    /\ result.value.d7_days_apart_off_by_1 = 2

\* |amt - base| <= 5% of |base|
WithinFivePercentOfBaseline(amt, base) ==
    RatLeq(RatMul(RatInt(100), RatAbs(RatSub(amt, base))), RatMul(RatInt(5), RatAbs(base)))

\* C3: for a history of at least 2 entries same_amount is the number of entries
\* whose amount differs from the first entry's amount (the baseline) by at most
\* 5% of the baseline, divided by the history size, for every nonzero baseline
\* of either sign; it is 0.0 when the baseline is 0.
C3_SameAmountRatio ==
    (call.fn = "get_transaction_intervals" /\ Len(all_transactions) >= 2
     /\ ~result.raised) =>
        LET base == all_transactions[1].amount
            close == {i \in DOMAIN all_transactions :
                         WithinFivePercentOfBaseline(all_transactions[i].amount, base)}
        IN  result.value.same_amount =
                IF base = RatInt(0) THEN RatInt(0)
                ELSE Rat(Cardinality(close), Len(all_transactions))

\* the history reordered by the permutation p of its indices
Permuted(txs, p) == [i \in DOMAIN txs |-> txs[p[i]]]

\* C4 as stated: the record get_transaction_intervals returns is the same for
\* every permutation of the history.
C4_IntervalsOrderIndependent ==
    call.fn = "get_transaction_intervals" =>
        \A p \in Permutations(DOMAIN all_transactions) :
            get_transaction_intervals(Permuted(all_transactions, p)) = result

\* the fields of the record computed from the dates
DateFields(r) ==
    <<r.avg_days_between_transactions, r.std_dev_days_between_transactions,
      r.monthly_recurrence, r.same_weekday>>

\* C4 as amended: for every permutation of the history the four date-derived
\* fields (avg_days_between_transactions, std_dev_days_between_transactions,
\* monthly_recurrence, same_weekday) are identical, and same_amount is
\* identical for every permutation that keeps the first entry first.
C4_DateFieldsOrderIndependent ==
    (call.fn = "get_transaction_intervals" /\ ~result.raised) =>
        \A p \in Permutations(DOMAIN all_transactions) :
            LET other == get_transaction_intervals(Permuted(all_transactions, p))
            IN  /\ ~other.raised
                /\ DateFields(other.value) = DateFields(result.value)
                /\ (all_transactions # <<>> /\ p[1] = 1) =>
                       other.value.same_amount = result.value.same_amount

C4_Witness ==
    /\ call.fn = "get_transaction_intervals"
    /\ Len(all_transactions) = 3
    /\ all_transactions[1] = Txn(Netflix, RatInt(100), Date(2024, 1, 31))
    /\ all_transactions[2] = Txn(Netflix, RatInt(0), Date(2024, 1, 1))
    /\ all_transactions[3] = Txn(Netflix, RatInt(105), Date(2024, 1, 15))
    /\ ~result.raised
    /\ result.value.avg_days_between_transactions = RatInt(15)
    /\ result.value.std_dev_days_between_transactions = [sqrt_of |-> RatInt(2)]
    /\ result.value.same_amount = Rat(2, 3)

\* C8: get_min_transaction_amount(h) <= t.amount <= get_max_transaction_amount(h)
\* for every entry t of h, both are the amount of some entry of a non-empty h,
\* and both are 0.0 when h is empty.
C8_MinMaxBoundAmounts ==
    /\ call.fn = "get_min_transaction_amount" =>
           /\ \A i \in DOMAIN all_transactions :
                  RatLeq(result.value, all_transactions[i].amount)
           /\ all_transactions # <<>> =>
                  \E i \in DOMAIN all_transactions : all_transactions[i].amount = result.value
           /\ all_transactions = <<>> => result.value = RatInt(0)
    /\ call.fn = "get_max_transaction_amount" =>
           /\ \A i \in DOMAIN all_transactions :
                  RatLeq(all_transactions[i].amount, result.value)
           /\ all_transactions # <<>> =>
                  \E i \in DOMAIN all_transactions : all_transactions[i].amount = result.value
           /\ all_transactions = <<>> => result.value = RatInt(0)

C8_Witness ==
    /\ call.fn = "get_max_transaction_amount"
    /\ Len(all_transactions) = 3
    /\ all_transactions[1].amount = RatInt(-100)
    /\ all_transactions[2].amount = RatInt(106)
    /\ all_transactions[3].amount = RatInt(0)
    /\ result.value = RatInt(106)

\* name holds a word that begins with the stem: the stem starts at a word
\* boundary, whatever follows it
HasWordBeginning(name, stem) ==
    \E i \in DOMAIN name : Boundary(name, i - 1) /\ MatchesAt(name, i, stem)

\* C5: get_is_insurance is true for every name containing a word that begins
\* with the stem "insur" or "insuranc" (such as "insurance" or "insured", in
\* any letter case).
C5_InsuranceStemMatchesWords ==
    (/\ call.fn = "get_is_insurance"
     /\ \/ HasWordBeginning(transaction.name, <<"i", "n", "s", "u", "r">>)
        \/ HasWordBeginning(transaction.name,
                            <<"i", "n", "s", "u", "r", "a", "n", "c">>)) =>
        result.value = TRUE

\* round(x) for a rational x: to the nearest integer, a tie to the even one
Round(x) ==
    LET lo == x.num \div x.den
        twice == 2 * (x.num - lo * x.den)
    IN  IF twice < x.den THEN lo
        ELSE IF twice > x.den THEN lo + 1
        ELSE IF lo % 2 = 0 THEN lo ELSE lo + 1

\* C6: get_ends_in_99 is true if and only if round(amount * 100) mod 100 = 99,
\* so it is true for 19.99, false for 20.00, and true for an amount with a
\* sub-cent fraction that rounds to X.99.
C6_EndsIn99RoundsToCents ==
    call.fn = "get_ends_in_99" =>
        (result.value = TRUE
            <=> Round(RatMul(transaction.amount, RatInt(100))) % 100 = 99)

\* the weekday, Monday = 0, of a valid date by Sakamoto's method
SakamotoOffsets == <<0, 3, 2, 5, 0, 3, 5, 1, 4, 6, 2, 4>>

CalendarWeekday(date) ==
    LET y == IF date.m < 3 THEN date.y - 1 ELSE date.y
        sunday0 == (y + (y \div 4) - (y \div 100) + (y \div 400)
                    + SakamotoOffsets[date.m] + date.d) % 7
    IN  (sunday0 + 6) % 7

\* a date string that names a day of the calendar
IsCalendarDate(date) ==
    /\ date.wf
    /\ date.y >= 1 /\ date.y <= 9999
    /\ date.m >= 1 /\ date.m <= 12
    /\ date.d >= 1
    /\ date.d <= 31
    /\ date.m \in {4, 6, 9, 11} => date.d <= 30
    /\ date.m = 2 => date.d <= 29
    /\ (date.m = 2 /\ date.d = 29) =>
           (date.y % 400 = 0 \/ (date.y % 4 = 0 /\ date.y % 100 # 0))

\* C7: get_year, get_month, get_day and get_day_of_week all return -1 when the
\* date string is no valid YYYY-MM-DD calendar date, and the true calendar
\* component (weekday with Monday = 0) when it is.
C7_CalendarComponentsOrSentinel ==
    call.fn = "calendar" =>
        /\ ~result.raised
        /\ IF IsCalendarDate(transaction.date)
           THEN /\ result.value.year = transaction.date.y
                /\ result.value.month = transaction.date.m
                /\ result.value.day = transaction.date.d
                /\ result.value.day_of_week = CalendarWeekday(transaction.date)
           ELSE /\ result.value.year = -1
                /\ result.value.month = -1
                /\ result.value.day = -1
                /\ result.value.day_of_week = -1

C7_Witness ==
    /\ call.fn = "calendar"
    /\ transaction.date = Date(2024, 13, 40)
    /\ result.value = [year |-> -1, month |-> -1, day |-> -1, day_of_week |-> -1]

====
